---- MODULE Spec2Model ----
(***************************************************************************)
(* Top Trumps - Hypercars (src/app.py).                                    *)
(*                                                                         *)
(* The program is a Streamlit script: every user event (a button click)    *)
(* and every st.rerun() executes the script once, top to bottom, against   *)
(* the session state.  One action of this model is one execution of the    *)
(* script.  Player indexes are 0-based as in the source; a card is         *)
(* represented by its catalog id.                                          *)
(***************************************************************************)
EXTENDS Integers, Sequences, FiniteSets, TLC

\* ---------------------------------------------------------------- bounds
\* Number of cards in the catalog (data/cards.json).
NumCards == 5
\* The round counter is capped: "Next round" is not taken beyond it.
MaxRound == 3
\* Number of cards of the catalog of the specification SpecFixedDeal.
FixedDealCards == 8

\* ------------------------------------------------------------- constants
\* Python None, for the integer-valued fields (winner, attribute values).
None == -1
\* Python None for chosen_attr (a string-valued field).
NoAttr == "None"
\* float("-inf") and float("inf"): below / above every catalog value.
NegInf == -1000
PosInf == 1000

RULES ==
    [top_speed |-> "higher", acceleration |-> "lower", horsepower |-> "higher",
     weight |-> "lower", engine_size |-> "higher", price |-> "higher",
     rpm |-> "higher", release_year |-> "lower"]

AttrKeys == DOMAIN RULES

\* The choices of the "Number of players" selectbox.
NumPlayersOptions == {2, 3, 4}

\* What a script run is started with: no widget event (page load, rerun),
\* or a click of "Start Game", "Play round", "Next round", "Start new game".
\* Invocations are the clicks that stand for the two turn operations; they
\* may reach the script in any state and are ignored where their button is
\* not executed.
Invocations == {"play", "next"}
Events == {"none"} \cup Invocations

\* ------------------------------------------------------------------ state
VARIABLES
    hasState,      \* st.session_state.state is not None
    players,       \* state["players"]: index -> deck (sequence of card ids)
    active,        \* state["active"]
    phase,         \* state["phase"]
    chosen_attr,   \* state["chosen_attr"]
    played,        \* state["played"]: player index -> card id
    winner,        \* state["winner"]
    round,         \* state["round"]
    pot,           \* state["pot"]
    outcome_text,  \* state["outcome_text"]
    rerun,         \* st.rerun() was called: the script is about to run again
    screen,        \* what the last script run displayed
    reported,      \* the player the "Game over" banner names, or None
    raised,        \* the exception the last script run died of, or "None"
    event,         \* the widget event the last script run was started with
    cards,         \* start_new_game's list `cards` after random.shuffle
    catalog,       \* the records of data/cards.json (card ids), never written
    chooser        \* the index of active_player in the run that played the
                   \* round on display, or None

game == <<players, active, phase, chosen_attr, played, winner, round, pot,
          outcome_text>>
vars == <<hasState, players, active, phase, chosen_attr, played, winner, round,
          pot, outcome_text, rerun, screen, reported, raised, event, cards,
          catalog, chooser>>

\* --------------------------------------------------------------- catalog
\* load_cards: the catalog after normalisation (a key missing from a record
\* is None).  Card c's value for attribute k.
CardAttr(c, k) ==
    CASE k = "top_speed"    -> c
      [] k = "acceleration" -> c
      [] k = "horsepower"   -> c % 2
      [] k = "weight"       -> (c + 1) \div 2
      [] k = "engine_size"  -> None
      [] k = "price"        -> IF c % 2 = 0 THEN None ELSE c
      [] k = "rpm"          -> 1
      [] k = "release_year" -> IF c = 1 THEN None ELSE 2

load_cards == catalog

\* The catalogs of the specification Spec: NumCards cards, or none at all.
FullCatalog == [c \in 1..NumCards |-> c]
Catalogs == {<<>>, FullCatalog}

\* ---------------------------------------------------------------- helpers
EmptyDict == [pi \in {} |-> 0]

\* range(n) as a sequence: <<0, ..., n-1>>.
RangeSeq(n) == [k \in 1..n |-> k - 1]

SeqRange(s) == {s[k] : k \in 1..Len(s)}

\* max / min of a non-empty set of numbers.
Max(S) == CHOOSE x \in S : \A y \in S : y <= x
Min(S) == CHOOSE x \in S : \A y \in S : x <= y

\* The keys of a dict whose keys were inserted in ascending order.
Keys(d) ==
    IF DOMAIN d = {} THEN <<>>
    ELSE SelectSeq(RangeSeq(Max(DOMAIN d) + 1), LAMBDA i : i \in DOMAIN d)

\* list(d.values()) for such a dict.
Values(d) == [k \in 1..Len(Keys(d)) |-> d[Keys(d)[k]]]

\* alive_player_indexes(state) over state["players"].
alive_player_indexes(ps) ==
    SelectSeq(RangeSeq(Cardinality(DOMAIN ps)), LAMBDA i : Len(ps[i]) > 0)

\* idxs.index(x): 0-based position of the first occurrence of x in idxs.
IndexOf(idxs, x) == (CHOOSE k \in 1..Len(idxs) :
                        idxs[k] = x /\ \A j \in 1..(k - 1) : idxs[j] # x) - 1

\* Mutant of NullScore: the two infinities are swapped.
NullScoreSwapped(rule) == IF rule = "higher" THEN PosInf ELSE NegInf

\* compare_cards: the score of a None value under the rule.
NullScore(rule) == IF rule = "higher" THEN NegInf ELSE PosInf

\* Mutant of PickWinner: the first of the best wins a tie.
PickWinnerFirst(winners) == winners[1]

\* compare_cards: the result for the list of the players with the best score.
PickWinner(winners) == IF Len(winners) = 1 THEN winners[1] ELSE None

\* compare_cards(card_by_player, attribute)
compare_cards(card_by_player, attribute) ==
    LET rule == RULES[attribute]
        pis == Keys(card_by_player)
        v(pi) == CardAttr(card_by_player[pi], attribute)
        score(pi) == IF v(pi) = None THEN NullScore(rule) ELSE v(pi)
        scores == {score(pi) : pi \in SeqRange(pis)}
        best == IF rule = "higher" THEN Max(scores) ELSE Min(scores)
        winners == SelectSeq(pis, LAMBDA pi : score(pi) = best)
    IN IF \A pi \in SeqRange(pis) : v(pi) = None THEN None
       ELSE PickWinner(winners)

\* The dealing loop of start_new_game: cards[idx..] are still to be dealt.
RECURSIVE Deal(_, _, _, _)
Deal(ps, cs, idx, num_players) ==
    IF idx >= Len(cs) THEN ps
    ELSE Deal([ps EXCEPT ![idx % num_players] = Append(@, cs[idx + 1])],
              cs, idx + 1, num_players)

\* Mutant of start_new_game: deck.insert(0, card) for deck.append(card).
Reverse(q) == [k \in 1..Len(q) |-> q[Len(q) + 1 - k]]
start_new_game_prepend(cs, num_players) ==
    [i \in 0..(num_players - 1) |->
        Reverse(Deal([j \in 0..(num_players - 1) |-> <<>>],
                     cs, 0, num_players)[i])]

\* The "deck" lists start_new_game returns for the shuffled cards cs.
start_new_game(cs, num_players) ==
    Deal([i \in 0..(num_players - 1) |-> <<>>], cs, 0, num_players)

\* cards = load_cards(); random.shuffle(cards): every order of the catalog.
Shuffles ==
    {[k \in 1..Len(load_cards) |-> load_cards[f[k]]] :
        f \in Permutations(1..Len(load_cards))}

\* ------------------------------------------------------- script sections
\* Mutant of IsGameOver: the count is off by one.
IsGameOverOffByOne(alive) == Len(alive) = 2

\* "End condition: only one player has cards" (the test of the if).
IsGameOver(alive) == Len(alive) = 1

\* "Ensure active player is alive": the value of state["active"] after it.
\* Only used where alive is non-empty; on an empty alive, alive[0] raises.
Repair(act, alive) == IF act \notin SeqRange(alive) THEN alive[1] ELSE act

\* The script reaches the phase branches: a game is running, it is not
\* over, and the repair does not raise.
ReachesPhase ==
    /\ hasState
    /\ ~IsGameOver(alive_player_indexes(players))
    /\ alive_player_indexes(players) # <<>>

\* Mutant of ChoosePhase: the choose branch runs whatever the phase.
ChoosePhaseAlways(ph) == TRUE

\* The phase dispatch: if state["phase"] == "choose" ... elif ... "reveal".
ChoosePhase(ph) == ph = "choose"
RevealPhase(ph) == ~ChoosePhase(ph) /\ ph = "reveal"

\* Mutant of TiePot: the pot is overwritten, not extended.
TiePotOverwrite(p, pl) == Values(pl)

\* Tie branch: state["pot"].extend(played.values()).
TiePot(p, pl) == p \o Values(pl)

\* Mutant of TieActive: the rotation does not wrap.
TieActiveNoWrap(idxs, act) ==
    idxs[IF IndexOf(idxs, act) + 1 < Len(idxs)
         THEN IndexOf(idxs, act) + 2 ELSE Len(idxs)]

\* Tie branch: the new active index.
TieActive(idxs, act) == idxs[((IndexOf(idxs, act) + 1) % Len(idxs)) + 1]

\* Mutant of Winnings: the pot comes before the played cards.
WinningsPotFirst(pl, p) == p \o Values(pl)

\* Mutant of Winnings: the pot is not handed over.
WinningsNoPot(pl, p) == Values(pl)

\* Win branch: winnings = list(played.values()) + state["pot"].
Winnings(pl, p) == Values(pl) \o p

\* Mutant of NextRoundNumber: the round is counted twice.
NextRoundNumberTwice(r) == r + 2

\* "Next round": state["round"] += 1.
NextRoundNumber(r) == r + 1

\* Mutant of NextRoundPlayed: played is not cleared.
NextRoundPlayedKept == played

\* "Next round": state["played"] = {}.
NextRoundPlayed == EmptyDict

\* Mutant of Recipient: the index is off by one.
RecipientOffByOne(w, ps) == (w + 1) % Cardinality(DOMAIN ps)

\* Win branch: the index of the deck that is extended, players[winner].
Recipient(w, ps) == w

\* Mutant of Popped: deck.pop() for deck.pop(0), the last card leaves.
PoppedLast(ps, alive) ==
    [pi \in DOMAIN ps |->
        IF pi \in SeqRange(alive)
        THEN SubSeq(ps[pi], 1, Len(ps[pi]) - 1) ELSE ps[pi]]

\* The decks after every alive player popped the top card.
Popped(ps, alive) ==
    [pi \in DOMAIN ps |->
        IF pi \in SeqRange(alive) THEN Tail(ps[pi]) ELSE ps[pi]]

\* played[pi] = deck.pop(0) for pi in alive.
PlayedCards(ps, alive) == [pi \in SeqRange(alive) |-> Head(ps[pi])]

\* ---------------------------------------------------------------- actions
InitSession ==
    /\ hasState = FALSE
    /\ players = EmptyDict
    /\ active = 0
    /\ phase = "choose"
    /\ chosen_attr = NoAttr
    /\ played = EmptyDict
    /\ winner = None
    /\ round = 1
    /\ pot = <<>>
    /\ outcome_text = "absent"
    /\ rerun = TRUE
    /\ screen = "none"
    /\ reported = None
    /\ raised = "None"
    /\ event = "none"
    /\ cards = <<>>
    /\ chooser = None

\* A fresh session over one of the catalogs.
Init == InitSession /\ catalog \in Catalogs

\* A fresh session over a catalog of FixedDealCards cards.
InitFixedDeal == InitSession /\ catalog = [c \in 1..FixedDealCards |-> c]

\* No game: the setup screen, "Start Game" not clicked.
RenderSetup(ev) ==
    /\ ~hasState
    /\ rerun => ev = "none"
    /\ event' = ev
    /\ screen' = "setup"
    /\ rerun' = FALSE
    /\ reported' = None
    /\ raised' = "None"
    /\ UNCHANGED <<hasState, game, cards, catalog, chooser>>

\* st.session_state.state = start_new_game(num_players); st.rerun().
StartGameWith(num_players, shuffled) ==
    /\ event' = "start"
    /\ cards' = shuffled
    /\ hasState' = TRUE
    /\ players' = start_new_game(shuffled, num_players)
    /\ active' = 0
    /\ phase' = "choose"
    /\ chosen_attr' = NoAttr
    /\ played' = EmptyDict
    /\ winner' = None
    /\ round' = 1
    /\ pot' = <<>>
    /\ outcome_text' = "absent"
    /\ screen' = "setup"
    /\ rerun' = TRUE
    /\ reported' = None
    /\ raised' = "None"
    /\ chooser' = None
    /\ UNCHANGED catalog

\* The setup screen with "Start Game" clicked, for every choice of the
\* selectbox and every outcome of the shuffle.
StartGame ==
    /\ ~hasState
    /\ ~rerun
    /\ \E n \in NumPlayersOptions, shuffled \in Shuffles :
          StartGameWith(n, shuffled)

\* The same with one outcome of the shuffle: the order of the catalog.
StartGameUnshuffled ==
    /\ ~hasState
    /\ ~rerun
    /\ \E n \in NumPlayersOptions : StartGameWith(n, load_cards)

\* Exactly one alive player: the "Game over" banner, then st.stop().
GameOver(ev) ==
    /\ hasState
    /\ IsGameOver(alive_player_indexes(players))
    /\ rerun => ev = "none"
    /\ event' = ev
    /\ screen' = "gameover"
    /\ reported' = alive_player_indexes(players)[1]
    /\ rerun' = FALSE
    /\ raised' = "None"
    /\ UNCHANGED <<hasState, game, cards, catalog, chooser>>

\* "Start new game" clicked on the game-over screen: the state is dropped.
StartNewGame ==
    /\ hasState
    /\ IsGameOver(alive_player_indexes(players))
    /\ ~rerun
    /\ event' = "new"
    /\ hasState' = FALSE
    /\ players' = EmptyDict
    /\ active' = 0
    /\ phase' = "choose"
    /\ chosen_attr' = NoAttr
    /\ played' = EmptyDict
    /\ winner' = None
    /\ round' = 1
    /\ pot' = <<>>
    /\ outcome_text' = "absent"
    /\ screen' = "gameover"
    /\ reported' = alive_player_indexes(players)[1]
    /\ rerun' = TRUE
    /\ raised' = "None"
    /\ cards' = <<>>
    /\ chooser' = None
    /\ UNCHANGED catalog

\* No alive player: state["active"] = alive[0] raises IndexError.
Crash(ev) ==
    /\ hasState
    /\ ~IsGameOver(alive_player_indexes(players))
    /\ alive_player_indexes(players) = <<>>
    /\ rerun => ev = "none"
    /\ event' = ev
    /\ screen' = "error"
    /\ raised' = "IndexError"
    /\ reported' = None
    /\ rerun' = FALSE
    /\ UNCHANGED <<hasState, game, cards, catalog, chooser>>

\* Phase "choose", "Play round" not clicked.
RenderChoose(ev) ==
    /\ ReachesPhase
    /\ ChoosePhase(phase)
    /\ ev # "play"
    /\ rerun => ev = "none"
    /\ event' = ev
    /\ active' = Repair(active, alive_player_indexes(players))
    /\ screen' = "choose"
    /\ reported' = None
    /\ raised' = "None"
    /\ rerun' = FALSE
    /\ UNCHANGED <<hasState, players, phase, chosen_attr, played, winner,
                   round, pot, outcome_text, cards, catalog, chooser>>

\* Phase "choose", "Play round" clicked with the radio on `chosen`.
PlayRound(chosen) ==
    LET alive == alive_player_indexes(players)
        act == Repair(active, alive)
        pl == PlayedCards(players, alive)
        rest == Popped(players, alive)
        w == compare_cards(pl, chosen)
    IN /\ ReachesPhase
       /\ ChoosePhase(phase)
       /\ ~rerun
       /\ event' = "play"
       /\ IF w = None
          THEN /\ pot' = TiePot(pot, pl)
               /\ players' = rest
               /\ active' = TieActive(alive, act)
               /\ outcome_text' = "tie"
          ELSE /\ pot' = <<>>
               /\ players' = [rest EXCEPT
                               ![Recipient(w, players)] = @ \o Winnings(pl, pot)]
               /\ active' = w
               /\ outcome_text' = "wins"
       /\ played' = pl
       /\ chosen_attr' = chosen
       /\ winner' = w
       /\ phase' = "reveal"
       /\ screen' = "choose"
       /\ reported' = None
       /\ raised' = "None"
       /\ rerun' = TRUE
       /\ chooser' = act
       /\ UNCHANGED <<hasState, round, cards, catalog>>

\* Phase "reveal", "Next round" not clicked.
RenderReveal(ev) ==
    /\ ReachesPhase
    /\ RevealPhase(phase)
    /\ ev # "next"
    /\ rerun => ev = "none"
    /\ event' = ev
    /\ active' = Repair(active, alive_player_indexes(players))
    /\ screen' = "reveal"
    /\ reported' = None
    /\ raised' = "None"
    /\ rerun' = FALSE
    /\ UNCHANGED <<hasState, players, phase, chosen_attr, played, winner,
                   round, pot, outcome_text, cards, catalog, chooser>>

\* Phase "reveal", "Next round" clicked.
NextRound ==
    /\ ReachesPhase
    /\ RevealPhase(phase)
    /\ ~rerun
    /\ round < MaxRound
    /\ event' = "next"
    /\ active' = Repair(active, alive_player_indexes(players))
    /\ played' = NextRoundPlayed
    /\ chosen_attr' = NoAttr
    /\ winner' = None
    /\ outcome_text' = ""
    /\ phase' = "choose"
    /\ round' = NextRoundNumber(round)
    /\ screen' = "reveal"
    /\ reported' = None
    /\ raised' = "None"
    /\ rerun' = TRUE
    /\ chooser' = None
    /\ UNCHANGED <<hasState, players, pot, cards, catalog>>

\* Every script run but the one that starts a game.
OtherRun ==
    \/ \E ev \in Events : RenderSetup(ev)
    \/ \E ev \in Events : GameOver(ev)
    \/ StartNewGame
    \/ \E ev \in Events : Crash(ev)
    \/ \E ev \in Events : RenderChoose(ev)
    \/ \E chosen \in AttrKeys : PlayRound(chosen)
    \/ \E ev \in Events : RenderReveal(ev)
    \/ NextRound

Next == StartGame \/ OtherRun

Spec == Init /\ [][Next]_vars

\* The games on the catalog of FixedDealCards cards that start from its
\* unshuffled order: some of the games of the program on that catalog.
NextFixedDeal == StartGameUnshuffled \/ OtherRun

SpecFixedDeal == InitFixedDeal /\ [][NextFixedDeal]_vars

\* ------------------------------------------------- vocabulary of the claims
Alive == alive_player_indexes(players)

RECURSIVE SumLen(_, _)
SumLen(ps, S) ==
    IF S = {} THEN 0
    ELSE LET i == CHOOSE x \in S : TRUE
         IN Len(ps[i]) + SumLen(ps, S \ {i})

\* sum(len(p.deck) for p in players) + len(pot)
TotalCards == SumLen(players, DOMAIN players) + Len(pot)

\* The script run that has just ended executed the "Play round" handler.
JustPlayed == hasState /\ rerun /\ event = "play"
\* A step that executes the "Play round" handler, and its two outcomes.
PlayStep == hasState /\ phase = "choose" /\ phase' = "reveal"
TieStep == PlayStep /\ winner' = None
WinStep == PlayStep /\ winner' # None
\* A step that executes the "Next round" handler.
AdvanceStep == hasState /\ hasState' /\ phase = "reveal" /\ event' = "next"
                 /\ Len(Alive) >= 2

\* ----------------------------------------------------------------- claims

\* C1 (Conservation): in every state of a running game, whatever rounds were
\* played and advanced, the deck sizes plus the pot size add up to the number
\* of cards start_new_game dealt (the whole catalog).
C1_Conservation == hasState => TotalCards = Len(load_cards)

\* C1 witness: a later round ended in a tie, so that cards sit in the pot
\* after both handlers have run.
C1_Witness == hasState /\ round >= 2 /\ phase = "reveal" /\ pot # <<>>

\* C2 (Termination, deck size) as claimed: whenever the game-over banner is
\* shown, the player it names holds every card dealt and the pot is empty.
C2_GameOverHoldsAll ==
    (hasState /\ screen = "gameover") =>
        Len(players[reported]) = Len(load_cards) /\ pot = <<>>

\* C3 (Termination, detection): once a script run has ended (no rerun
\* pending), the game-over banner is shown exactly when a game is running
\* with exactly one alive player, and it names that player; with zero or
\* with two or more alive players it is not shown and nobody is named.
C3_Detection ==
    ~rerun =>
        /\ (screen = "gameover") <=> (hasState /\ Len(Alive) = 1)
        /\ screen = "gameover" => reported = Alive[1]
        /\ screen # "gameover" => reported = None

\* C3 witness: game over was reported right after a tied round.
C3_Witness ==
    /\ ~rerun /\ screen = "gameover" /\ winner = None /\ phase = "reveal"
    /\ pot # <<>>

\* C3 witness of the other direction: no alive player, and no game over.
C3_WitnessNoAlive == ~rerun /\ hasState /\ Len(Alive) = 0

\* C4 (Active-is-alive) as claimed: in every state of a running game,
\* including the one right after a tied "Play round", active indexes a
\* player with a non-empty deck.
C4_ActiveIsAlive ==
    (hasState /\ Len(load_cards) > 0) => Len(players[active]) > 0

\* C5 (Phase consistency): in phase reveal chosen_attr is set and played
\* holds an entry for exactly the players that were alive when the round was
\* played (a round fills played with those players, and played stays as it
\* is while the phase is reveal); in phase choose played is empty and
\* chosen_attr is None.
C5_PhaseConsistency ==
    /\ [](phase = "choose" => played = EmptyDict /\ chosen_attr = NoAttr)
    /\ [](phase = "reveal" => chosen_attr \in AttrKeys /\ DOMAIN played # {})
    /\ [][PlayStep => DOMAIN played' = SeqRange(Alive)]_vars
    /\ [][phase = "reveal" /\ phase' = "reveal" => played' = played]_vars

\* C5 witness: the reveal of a round that eliminated one of its players, and
\* the choose phase after a round.
C5_Witness ==
    /\ hasState /\ phase = "reveal"
    /\ \E pi \in DOMAIN played : Len(players[pi]) = 0
    /\ Len(Alive) >= 2

\* C6 (Tie pot accumulation): a tied round appends exactly its played cards
\* (ascending player index) to the pot and gives no deck a card; a decisive
\* round gives its winner exactly the played cards followed by the whole
\* pot and empties the pot; no other step changes the pot within a game, and
\* the pot is empty when a game starts.  Hence during a run of ties the pot
\* holds exactly the cards of the tied rounds, and the decisive round after
\* it hands over the cards of all its rounds.
C6_TiePot ==
    /\ [][TieStep =>
            /\ pot' = pot \o Values(played')
            /\ players' = Popped(players, Alive)]_vars
    /\ [][WinStep =>
            /\ pot' = <<>>
            /\ players'[winner'] =
                 Tail(players[winner']) \o Values(played') \o pot
            /\ \A pi \in DOMAIN players \ {winner'} :
                 players'[pi] = Popped(players, Alive)[pi]]_vars
    /\ [][hasState /\ hasState' /\ ~PlayStep => pot' = pot]_vars
    /\ [][~hasState /\ hasState' => pot' = <<>>]_vars

\* C6 witness: a decisive round that claimed a non-empty pot (the last card
\* of the winner's deck is not one of the cards played in the round).
C6_Witness ==
    /\ JustPlayed /\ winner # None /\ pot = <<>>
    /\ \A pi \in DOMAIN played :
         players[winner][Len(players[winner])] # played[pi]

\* C6 witness of the run itself: two tied rounds in a row fill the pot.
C6_WitnessTwoTies ==
    /\ JustPlayed /\ winner = None /\ round = 2
    /\ Len(pot) > Cardinality(DOMAIN played)

\* C7 (Turn rotation on tie): a tied round sets active to the element that
\* follows the old active index in the alive sequence taken at the start of
\* the round, the last element being followed by the first.
C7_TieRotation ==
    [][TieStep =>
         \E k \in 1..Len(Alive) :
            /\ Alive[k] = active
            /\ active' = Alive[IF k = Len(Alive) THEN 1 ELSE k + 1]]_vars

\* C7 witness: three players, all alive, active 0, a tie: active is 1.
C7_Witness ==
    /\ JustPlayed /\ winner = None /\ round = 1
    /\ DOMAIN played = {0, 1, 2} /\ DOMAIN players = {0, 1, 2}
    /\ active = 1

\* C7 witness of the wrap: the last alive player was active, the first is.
C7_WitnessWrap ==
    /\ JustPlayed /\ winner = None /\ round = 2
    /\ DOMAIN played = {0, 1} /\ active = 0

\* An invocation of one of the two operations in the wrong phase: "Play
\* round" reaching a run in phase reveal, "Next round" one in phase choose.
WrongPhaseInvocation ==
    /\ hasState
    /\ \/ phase = "reveal" /\ event' = "play"
       \/ phase = "choose" /\ event' = "next"

C8_WitnessNext ==
    /\ hasState /\ ~rerun /\ event = "next" /\ phase = "choose"
    /\ screen = "choose"

\* C9 (advanceRound effect and frame): the "Next round" handler empties
\* played, sets chosen_attr and winner to None and the outcome text to "",
\* adds exactly 1 to round, sets the phase to choose, and leaves the decks,
\* the pot and active as they were; the "Play round" handler leaves round
\* as it was.
C9_AdvanceRound ==
    /\ [][AdvanceStep =>
            /\ played' = EmptyDict
            /\ chosen_attr' = NoAttr
            /\ winner' = None
            /\ outcome_text' = ""
            /\ round' = round + 1
            /\ phase' = "choose"
            /\ UNCHANGED <<players, pot, active>>]_vars
    /\ [][PlayStep => round' = round]_vars

\* C9 witness: "Next round" has just run after a tie, with cards in the pot.
C9_Witness ==
    /\ hasState /\ rerun /\ event = "next" /\ round = 2 /\ pot # <<>>

\* The number of positions i in 0..(c - 1) with i % n = p.
DealCount(c, n, p) == Cardinality({i \in 0..(c - 1) : i % n = p})

\* C10 (Deal fairness): right after start_new_game, for the chosen number n
\* of players and the shuffled catalog, player p's deck is the cards at the
\* shuffle positions p, p + n, p + 2n, ... in that order; the deck sizes
\* differ by at most 1 and add up to the catalog size; and active = 0,
\* phase = choose, round = 1, the pot and played are empty, chosen_attr and
\* winner are None.
C10_DealFairness ==
    (hasState /\ event = "start") =>
        LET n == Cardinality(DOMAIN players)
            c == Len(load_cards)
        IN /\ n \in NumPlayersOptions
           /\ DOMAIN players = 0..(n - 1)
           /\ Len(cards) = c
           /\ \A p \in 0..(n - 1) :
                /\ Len(players[p]) = DealCount(c, n, p)
                /\ \A k \in 1..Len(players[p]) :
                     players[p][k] = cards[(k - 1) * n + p + 1]
           /\ \A p, q \in 0..(n - 1) :
                Len(players[p]) - Len(players[q]) <= 1
           /\ SumLen(players, DOMAIN players) = c
           /\ active = 0 /\ phase = "choose" /\ round = 1
           /\ pot = <<>> /\ played = EmptyDict
           /\ chosen_attr = NoAttr /\ winner = None

\* C10 witness: a three-player deal of a catalog that does not divide evenly.
C10_Witness ==
    /\ hasState /\ event = "start" /\ DOMAIN players = {0, 1, 2}
    /\ Len(players[0]) # Len(players[2])

\* The value of the chosen attribute on the card player pi has on display.
PlayedValue(pi) == CardAttr(played[pi], chosen_attr)

\* C11 (Null always loses): whenever a round has been resolved, the winner
\* compare_cards returned is not a player whose value for the chosen
\* attribute is None; and when two players played, one value None and the
\* other a number, the winner is the player with the number, whatever the
\* rule of the attribute.
C11_NullAlwaysLoses ==
    (hasState /\ phase = "reveal") =>
        /\ winner # None => PlayedValue(winner) # None
        /\ \A p, q \in DOMAIN played :
             (DOMAIN played = {p, q} /\ p # q /\ PlayedValue(p) = None
                /\ PlayedValue(q) # None) => winner = q

\* C11 witness: two players, rule "lower", a None against a number.
C11_Witness ==
    /\ hasState /\ phase = "reveal" /\ RULES[chosen_attr] = "lower"
    /\ Cardinality(DOMAIN played) = 2
    /\ \E p, q \in DOMAIN played :
         PlayedValue(p) = None /\ PlayedValue(q) # None /\ winner = q

\* C11 witness for the rule "higher".
C11_WitnessHigher ==
    /\ hasState /\ phase = "reveal" /\ RULES[chosen_attr] = "higher"
    /\ Cardinality(DOMAIN played) = 2
    /\ \E p, q \in DOMAIN played :
         PlayedValue(p) = None /\ PlayedValue(q) # None /\ winner = q

\* The players on display that hold the best value that is not None: the
\* largest under "higher", the smallest under "lower".
BestHolders ==
    {p \in DOMAIN played :
        /\ PlayedValue(p) # None
        /\ \A q \in DOMAIN played :
             PlayedValue(q) # None =>
                IF RULES[chosen_attr] = "higher"
                THEN PlayedValue(q) <= PlayedValue(p)
                ELSE PlayedValue(p) <= PlayedValue(q)}

\* C12 (Comparison correctness): whenever a round has been resolved, the
\* winner is w exactly when w is the only player holding the best value that
\* is not None, and is None in every other case (all values None, or the
\* best value shared).
C12_ComparisonCorrect ==
    (hasState /\ phase = "reveal") =>
        IF Cardinality(BestHolders) = 1
        THEN winner \in BestHolders
        ELSE winner = None

\* C12 witness: three or more players, the best value shared by two of them
\* and a worse number held by another: a tie by equality.
C12_Witness ==
    /\ hasState /\ phase = "reveal" /\ winner = None
    /\ Cardinality(BestHolders) = 2
    /\ \E r \in DOMAIN played \ BestHolders : PlayedValue(r) # None

\* C12 witness: a unique best value although two other players tie.
C12_WitnessUnique ==
    /\ hasState /\ phase = "reveal" /\ winner # None
    /\ \E q, r \in DOMAIN played \ {winner} :
         q # r /\ PlayedValue(q) = PlayedValue(r) /\ PlayedValue(q) # None

\* C13 (Empty catalog) as claimed: "Start Game" on a catalog without cards
\* fails with EmptyCatalogError, and no game state exists on such a catalog.
C13_EmptyCatalogError ==
    Len(load_cards) = 0 =>
        /\ ~hasState
        /\ event = "start" => raised = "EmptyCatalogError"

\* C14 (Decisive round transfer): a round with a winner w leaves w's deck as
\* its old deck without the top card, then the played cards by ascending
\* player index, then the old pot in its order; every other player that
\* played keeps the old deck without its top card; a player that did not
\* play keeps the deck (empty) as it was; the pot is empty; active is w.
C14_DecisiveTransfer ==
    [][WinStep =>
         /\ players'[winner'] =
              Tail(players[winner'])
                 \o [k \in 1..Len(Alive) |-> Head(players[Alive[k]])]
                 \o pot
         /\ \A pi \in SeqRange(Alive) \ {winner'} :
              players'[pi] = Tail(players[pi])
         /\ \A pi \in DOMAIN players \ SeqRange(Alive) :
              players'[pi] = players[pi] /\ players[pi] = <<>>
         /\ DOMAIN players' = DOMAIN players
         /\ pot' = <<>>
         /\ active' = winner']_vars

\* C14 witness: a decisive round among the players left after an earlier
\* round eliminated one, which claims that round's pot.
C14_Witness ==
    /\ JustPlayed /\ winner # None /\ active = winner
    /\ DOMAIN players \ DOMAIN played # {}
    /\ Len(players[winner]) > 1 + Cardinality(DOMAIN played)

\* C15 (A tie passes the turn) as claimed: once the reveal screen of a tied
\* round is up (the game is not over and the repair has run; "Next round"
\* leaves active as it is), active is not the player who chose in the tied
\* round.
C15_TiePassesTurn ==
    (hasState /\ ~rerun /\ screen = "reveal" /\ winner = None) =>
        active # chooser

\* C16 (Cycle ordering) as claimed: game over is not reported while the
\* phase is reveal, with played still filled and "Next round" not taken.
C16_NoGameOverInReveal ==
    (hasState /\ screen = "gameover") =>
        phase = "choose" /\ played = EmptyDict

\* C17 (No error on a tie) as claimed: after a tied round some player is
\* alive and the script run that follows does not raise.
C17_NoErrorOnTie ==
    (hasState /\ phase = "reveal" /\ winner = None) =>
        Len(Alive) >= 1 /\ raised = "None"

\* C18 (Elimination is permanent): within a game the player list keeps its
\* indexes, and a deck that is empty stays empty, so that the set of alive
\* players never grows.
C18_EliminationPermanent ==
    [][(hasState /\ hasState') =>
         /\ DOMAIN players' = DOMAIN players
         /\ \A pi \in DOMAIN players :
              players[pi] = <<>> => players'[pi] = <<>>
         /\ SeqRange(alive_player_indexes(players')) \subseteq SeqRange(Alive)
      ]_vars

\* C18 witness: a round played, with a winner, while an eliminated player
\* sat out.
C18_Witness ==
    /\ JustPlayed /\ winner # None /\ round >= 2
    /\ \E pi \in DOMAIN players \ DOMAIN played : players[pi] = <<>>
    /\ Len(Alive) >= 2

\* The places of card c: positions in decks and positions in the pot.
Places(c) ==
    UNION {{<<pi, k>> : k \in {j \in 1..Len(players[pi]) : players[pi][j] = c}} :
             pi \in DOMAIN players}

PotPlaces(c) == {k \in 1..Len(pot) : pot[k] = c}

\* C19 (Card partition): in every state of a running game each card of the
\* catalog is at exactly one place, a position of one deck or of the pot,
\* and nothing else is in the decks or the pot.
C19_CardPartition ==
    hasState =>
        /\ \A c \in SeqRange(load_cards) :
             Cardinality(Places(c)) + Cardinality(PotPlaces(c)) = 1
        /\ TotalCards = Len(load_cards)

\* C19 witness: during a reveal after a decisive round that followed a tie,
\* with a card on display that is now in another player's deck.
C19_Witness ==
    /\ hasState /\ phase = "reveal" /\ winner # None /\ round >= 2
    /\ \E pi \in DOMAIN played \ {winner} :
         \E k \in 1..Len(players[winner]) : players[winner][k] = played[pi]

\* The size of the second-largest deck (the largest, if two decks share it).
SecondLargest(ps) ==
    LET top == CHOOSE i \in DOMAIN ps :
                  \A j \in DOMAIN ps : Len(ps[j]) <= Len(ps[i])
    IN Max({Len(ps[j]) : j \in DOMAIN ps \ {top}})

\* C20 (Tie cascades are finite) as claimed, for the runs that start at the
\* deal: when the first two rounds of a game are both tied, two is at most
\* the size of the smallest deck dealt.
C20_TieRunMinDeck ==
    LET n == Cardinality(DOMAIN players)
    IN (/\ hasState /\ round = 2 /\ phase = "reveal" /\ winner = None
        /\ pot = SubSeq(cards, 1, n) \o Values(played))
       => \A p \in DOMAIN players : 2 <= DealCount(Len(cards), n, p)

\* C20 as amended: a tied round lowers the sum of the deck sizes by the
\* number of alive players, raises the pot by the same amount, and lowers
\* the size of the second-largest deck (at least 1 before it) by exactly 1;
\* so an unbroken run of tied rounds has at most as many rounds as the
\* second-largest deck holds cards.
C20_TieRunSecondDeck ==
    [][TieStep =>
         /\ SumLen(players', DOMAIN players')
              = SumLen(players, DOMAIN players) - Len(Alive)
         /\ Len(pot') = Len(pot) + Len(Alive)
         /\ SecondLargest(players) >= 1
         /\ SecondLargest(players') = SecondLargest(players) - 1]_vars

\* C20 witness: a tie that eliminated a player and left two or more alive,
\* so that the run of ties can go on.
C20_Witness ==
    /\ JustPlayed /\ winner = None /\ Len(Alive) >= 2
    /\ \E pi \in DOMAIN played : players[pi] = <<>>

====
